---- MODULE Spec2Model ----
(***************************************************************************)
(* Model of ev-charger.c: the controller that switches an EV charger on    *)
(* or off from the house meter's demand reading and the time of day.       *)
(*                                                                         *)
(* A step of the model is the startup sequence of main(), or one of the     *)
(* calls an iteration of its while(1) loop makes: the clock read at the    *)
(* top, the switch command with its mail and mode update, the meter read,  *)
(* the sleep at the bottom.  Every function of the program is an operator  *)
(* that yields the SET of results the call can have, one for each answer   *)
(* of the network (the relay hub, the meter's cloud endpoint, the mail     *)
(* server).  A result carries the trace of the externally visible events   *)
(* of the call, in program order; log holds the trace of the iteration     *)
(* under way and is emptied at the top of the loop.                        *)
(*                                                                         *)
(* Numbers: actual_demand is a C double computed as                        *)
(* (demand * multiplier) / divisor from three integer tokens; it is kept   *)
(* here as the exact fraction [num, den] with den > 0, and the two         *)
(* comparisons of the loop are done by cross-multiplication.               *)
(*                                                                         *)
(* Spec is the whole program with a network that answers as it likes.      *)
(* ParseSpec runs the parsing part of get_meter_reading() alone over a     *)
(* wider set of tokens; SteadySpec runs the loop outside the value charge  *)
(* time frame for a house whose own draw is constant; WindowSpec runs the   *)
(* time frame test for a program built with any start and end hour;        *)
(* RetrySpec is the whole program with a clock that stays in the time      *)
(* frame once it is there, and with fairness; TransferSpec runs one meter  *)
(* call of get_meter_reading() callback by callback.                       *)
(***************************************************************************)
EXTENDS Integers, Sequences, FiniteSets, TLC

\* ------------------------------------------------------------ constants

SLEEP_SECONDS == 120
VALUE_CHARGE_START_HOUR == 23
VALUE_CHARGE_END_HOUR == 7
SWITCHING_THRESHOLD == 0
HUB2 == 2

\* EV_CHARGING_CURRENT is 1.4 kW
EV_CHARGING_CURRENT == [num |-> 14, den |-> 10]

\* enum: modes of the EV charger, and the events sendmail() knows
OFF == 0
ON == 1
ON_ERROR == 2
OFF_ERROR == 3
ON_VC == 4
ON_VC_ERROR == 5
OFF_CURRENT == 6
OFF_VALUE == 7
OFF_STARTUP == 8
REBOOT_GATEWAY_TIMEOUT == 9
REBOOT_GATEWAY_UNAVAILABLE == 10

\* the fixed waits of reboot_gateway() and of startup
GATEWAY_OFF_SECONDS == 5
GATEWAY_BOOT_SECONDS == 60

\* results of a libcurl call: CURLE_OK, some other CURLcode, or no handle at
\* all (curl_easy_init() returned NULL, so no request was issued)
CURLE_OK == 0
CURLE_COULDNT_CONNECT == 7
NO_HANDLE == -1
CurlResults == {CURLE_OK, CURLE_COULDNT_CONNECT, NO_HANDLE}

\* turn_gateway_on(), turn_gateway_off() and sendmail() return nothing and do
\* after a missing handle exactly what they do after a failed request (print
\* and return): for them the two are one result
PerformResults == {CURLE_OK, CURLE_COULDNT_CONNECT}

\* ------------------------------------------------------------ bounds

\* the most pieces in which libcurl delivers one response body
MaxChunks == 2

\* the hours of the day the clock is sampled at (both sides of both ends of
\* the value charge window, and midday)
Hours == {0, 6, 7, 12, 22, 23}

\* ------------------------------------------------------------ events

\* One externally visible event: op is the function that acted, arg its
\* argument, res the result of its network call, reading the demand value
\* written into a mail (<< >> when the mail carries none).
Ev(op, arg, res) == [op |-> op, arg |-> arg, res |-> res, reading |-> << >>]

Mail(event, res, reading) ==
    [op |-> "sendmail", arg |-> event, res |-> res, reading |-> reading]

Sleep(seconds) == << Ev("sleep", seconds, 0) >>

\* all concatenations of a trace of A with a trace of B
Cat(A, B) == { a \o b : a \in A, b \in B }

\* ------------------------------------------------------------ numbers

Zero == [num |-> 0, den |-> 1]

\* a / b as a fraction with a positive denominator
Frac(a, b) == IF b < 0 THEN [num |-> -a, den |-> -b] ELSE [num |-> a, den |-> b]

\* actual_demand <= t, t an integer
LeqInt(d, t) == d.num <= t * d.den

\* (actual_demand + c) <= t, c a fraction, t an integer
PlusLeqInt(d, c, t) == d.num * c.den + c.num * d.den <= t * d.den * c.den

\* equality of two fractions
FracEq(a, b) == a.num * b.den = b.num * a.den

\* ------------------------------------------------------------ the meter's response

\* A token is the text between a marker and the next '<': "0x" followed by
\* hex digits, kept as the sequence of the digits' values.  << >> stands for
\* a marker that is absent.
NoTok == << >>

RECURSIVE HexVal(_)
HexVal(tok) ==
    IF tok = << >> THEN 0
    ELSE 16 * HexVal(SubSeq(tok, 1, Len(tok) - 1)) + tok[Len(tok)]

\* atof() of a token
atof(tok) == HexVal(tok)

\* "0x001738": 5944;  "0x0001f4": 500;  "0x000000": 0
\* "0x000384": 900;  "0x000578": 1400
\* "0xfffffa87": -1400;  "0xfffff82f": -2000;  "0xfffffe0b": -500
\* "0xfffffda7": -600
DemandTokens ==
    { <<0,0,1,7,3,8>>, <<0,0,0,1,15,4>>, <<0,0,0,0,0,0>>,
      <<0,0,0,3,8,4>>, <<0,0,0,5,7,8>>,
      <<15,15,15,15,15,10,8,7>>, <<15,15,15,15,15,8,2,15>>,
      <<15,15,15,15,15,14,0,11>>, <<15,15,15,15,15,13,10,7>> }

\* "0x00000001", "0x00000000"
MultiplierTokens == { <<0,0,0,0,0,0,0,1>>, <<0,0,0,0,0,0,0,0>> }

\* "0x000003e8": 1000, "0x00000000"
DivisorTokens == { <<0,0,0,0,0,3,14,8>>, <<0,0,0,0,0,0,0,0>> }

Body(dem, mul, div, timeout, unavailable) ==
    [Demand |-> dem, Multiplier |-> mul, Divisor |-> div,
     Timeout |-> timeout, Unavailable |-> unavailable]

\* "0x001738", "0x00000001", "0x000003e8": the answer of the API's manual
DocDemand == <<0,0,1,7,3,8>>
DocMultiplier == <<0,0,0,0,0,0,0,1>>
DocDivisor == <<0,0,0,0,0,3,14,8>>

\* the texts one callback invocation can hand over
Bodies ==
    \* a complete InstantaneousDemand answer
    { Body(d, DocMultiplier, DocDivisor, FALSE, FALSE) : d \in DemandTokens }
    \cup { Body(DocDemand, m, v, FALSE, FALSE) :
             m \in MultiplierTokens, v \in DivisorTokens }
    \* no <Demand>: an error page with none, one or both fault signatures
    \cup { Body(NoTok, NoTok, NoTok, t, u) : t \in BOOLEAN, u \in BOOLEAN }
    \* a complete answer in which the words of a fault signature occur too
    \cup { Body(DocDemand, DocMultiplier, DocDivisor, TRUE, FALSE) }
    \* a piece that holds <Demand> but not the fields after it
    \cup { Body(DocDemand, NoTok, NoTok, FALSE, FALSE),
           Body(DocDemand, DocMultiplier, NoTok, FALSE, FALSE) }

\* the bodies libcurl can deliver: no piece at all, or up to MaxChunks pieces
Responses == UNION { [1..n -> Bodies] : n \in 0..MaxChunks }

\* ------------------------------------------------------------ the relay hub

\* turn_gateway_on(): one request to gateway_on_url2, its failure only printed
turn_gateway_on(hub) == { << Ev("turn_gateway_on", hub, r) >> : r \in PerformResults }

\* turn_gateway_off(): one request to gateway_off_url2, its failure only printed
turn_gateway_off(hub) == { << Ev("turn_gateway_off", hub, r) >> : r \in PerformResults }

\* reboot_gateway that gives up when the power-off command fails
reboot_gateway_GiveUp ==
    UNION { IF o[1].res # CURLE_OK
            THEN { o }
            ELSE Cat({o}, Cat({Sleep(GATEWAY_OFF_SECONDS)},
                     Cat(turn_gateway_on(HUB2), {Sleep(GATEWAY_BOOT_SECONDS)}))) :
            o \in turn_gateway_off(HUB2) }

\* reboot_gateway(): off, sleep(5), on, sleep(60)
reboot_gateway ==
    Cat(turn_gateway_off(HUB2),
        Cat({Sleep(GATEWAY_OFF_SECONDS)},
            Cat(turn_gateway_on(HUB2), {Sleep(GATEWAY_BOOT_SECONDS)})))

\* switch_charger(): the url is chosen by mode and top; returns mode when the
\* request succeeds and -1 otherwise
SwitchUrl(mode, top) ==
    IF mode = ON
    THEN (IF top = ON THEN "switch_on_top_url2" ELSE "switch_on_url2")
    ELSE "switch_off_url2"

\* switch_charger that sends the command a second time when the first failed
switch_charger_Retry(mode, top, hub) ==
    { [ret |-> mode, log |-> << Ev(SwitchUrl(mode, top), mode, CURLE_OK) >>] }
    \cup { [ret |-> IF r2 = CURLE_OK THEN mode ELSE -1,
            log |-> << Ev(SwitchUrl(mode, top), mode, r1),
                       Ev(SwitchUrl(mode, top), mode, r2) >>] :
            r1 \in CurlResults \ {CURLE_OK}, r2 \in CurlResults }

switch_charger(mode, top, hub) ==
    { [ret |-> IF r = CURLE_OK THEN mode ELSE -1,
       log |-> << Ev(SwitchUrl(mode, top), mode, r) >>] : r \in CurlResults }

\* ------------------------------------------------------------ sendmail

\* The payload_source_* callbacks: every template but the startup one and
\* the two reboot ones appends " Meter reading: ... kW." with actual_demand.
\* Payload with the commented-out lines of the two reboot callbacks put back
Payload_RebootReading(event, demand) ==
    IF event = OFF_STARTUP THEN << >> ELSE << demand >>

Payload(event, demand) ==
    IF event \in {OFF_STARTUP, REBOOT_GATEWAY_TIMEOUT, REBOOT_GATEWAY_UNAVAILABLE}
    THEN << >>
    ELSE << demand >>

\* sendmail(): one message; a failure is printed and nothing else
sendmail(event, demand) ==
    { << Mail(event, r, Payload(event, demand)) >> : r \in PerformResults }

\* ------------------------------------------------------------ get_meter_reading

\* WriteMemoryCallbackMeter(): remembers the address of the piece it is given
WriteMemoryCallbackMeter(buffer, contents) == << contents >>

\* curl_easy_perform() of the meter call: the callback runs once per piece
RECURSIVE Deliver(_, _)
Deliver(buffer, chunks) ==
    IF chunks = << >> THEN buffer
    ELSE Deliver(WriteMemoryCallbackMeter(buffer, Head(chunks)), Tail(chunks))

\* demand_string[2] == 'f': the first hex digit after "0x"
IsNegative(tok) == Len(tok) >= 1 /\ tok[1] = 15

\* atof("0xffffffff") - atof(tok) for an eight-digit token.  Neither operand
\* fits the integers of the model checker when tok starts with f, but the
\* difference does: it is the number whose hex digits are 15 - digit.
AllOnesMinus(tok) == HexVal([i \in 1..Len(tok) |-> 15 - tok[i]])

\* RawDemand that takes the token for a two's complement number
RawDemand_TwosComplement(tok) ==
    IF IsNegative(tok)
    THEN (AllOnesMinus(tok) + 1) * (-1)
    ELSE atof(tok)

\* the raw demand: atof of the token, corrected when the meter runs backwards
RawDemand(tok) ==
    IF IsNegative(tok)
    THEN AllOnesMinus(tok) * (-1)
    ELSE atof(tok)

\* OneIfZero without the test for zero
OneIfZero_Keep(x) == x

\* a multiplier or divisor of zero is replaced by one
OneIfZero(x) == IF x = 0 THEN 1 ELSE x

\* actual_demand = (demand * multiplier) / divisor
ActualDemand(b) ==
    Frac(RawDemand(b.Demand) * OneIfZero(atof(b.Multiplier)),
         OneIfZero(atof(b.Divisor)))

\* the reboots of a response without <Demand>: one test per signature
FaultRecovery(b) ==
    Cat(IF b.Timeout
        THEN Cat(reboot_gateway, sendmail(REBOOT_GATEWAY_TIMEOUT, Zero))
        ELSE {<< >>},
        IF b.Unavailable
        THEN Cat(reboot_gateway, sendmail(REBOOT_GATEWAY_UNAVAILABLE, Zero))
        ELSE {<< >>})

Reading(ret, demand, buffer, res, log, crash) ==
    [ret |-> ret, actual_demand |-> demand, parse_buffer |-> buffer,
     res |-> res, log |-> log, crash |-> crash]

Post(ret, res) == << Ev("get_meter_reading", ret, res) >>

\* ParseResponse that looks for the fault signatures before it looks for
\* <Demand>
ParseResponse_SignatureFirst(buffer) ==
    IF buffer = << >>
    THEN { Reading(0, Zero, buffer, CURLE_OK, Post(0, CURLE_OK), FALSE) }
    ELSE LET b == buffer[1] IN
         IF b.Timeout \/ b.Unavailable \/ b.Demand = NoTok
         THEN { Reading(0, Zero, buffer, CURLE_OK, Post(0, CURLE_OK) \o l, FALSE) :
                  l \in FaultRecovery(b) }
         ELSE IF b.Multiplier = NoTok \/ b.Divisor = NoTok
         THEN { Reading(-1, Zero, buffer, CURLE_OK, Post(-1, CURLE_OK), TRUE) }
         ELSE { Reading(1, ActualDemand(b), buffer, CURLE_OK, Post(1, CURLE_OK), FALSE) }

\* what get_meter_reading() does with the text parse_buffer points at
ParseResponse(buffer) ==
    IF buffer = << >>
    THEN { Reading(0, Zero, buffer, CURLE_OK, Post(0, CURLE_OK), FALSE) }
    ELSE LET b == buffer[1] IN
         IF b.Demand = NoTok
         THEN { Reading(0, Zero, buffer, CURLE_OK, Post(0, CURLE_OK) \o l, FALSE) :
                  l \in FaultRecovery(b) }
         ELSE IF b.Multiplier = NoTok \/ b.Divisor = NoTok
         \* strstr() returns NULL and strchr() reads from address 12 or 9
         THEN { Reading(-1, Zero, buffer, CURLE_OK, Post(-1, CURLE_OK), TRUE) }
         ELSE { Reading(1, ActualDemand(b), buffer, CURLE_OK, Post(1, CURLE_OK), FALSE) }

\* what parse_buffer can point at when curl_easy_perform() returns
DeliveredBuffers == { Deliver(<< >>, c) : c \in Responses }

\* get_meter_reading(): actual_demand and parse_buffer are cleared first
get_meter_reading ==
    { Reading(0, Zero, << >>, NO_HANDLE, Post(0, NO_HANDLE), FALSE) }
    \cup { Reading(0, Zero, b, CURLE_COULDNT_CONNECT,
                   Post(0, CURLE_COULDNT_CONNECT), FALSE) : b \in DeliveredBuffers }
    \cup UNION { ParseResponse(b) : b \in DeliveredBuffers }

\* ------------------------------------------------------------ main: the loop

\* ValueCharge with && written for ||
ValueCharge_And(hour) ==
    (hour < VALUE_CHARGE_END_HOUR) /\ (hour >= VALUE_CHARGE_START_HOUR)

\* the test of the value charge time frame, for a program built with the
\* given start and end hours
ValueChargeTest(hour, start, end) == (hour < end) \/ (hour >= start)

\* the test of the value charge time frame on timeinfo->tm_hour
ValueCharge(hour) ==
    ValueChargeTest(hour, VALUE_CHARGE_START_HOUR, VALUE_CHARGE_END_HOUR)

\* ChargeOn with < written for <= in the test of a charger that is on
ChargeOn_Strict(mode, demand) ==
    \/ mode = ON /\ demand.num < SWITCHING_THRESHOLD * demand.den
    \/ mode = OFF /\ PlusLeqInt(demand, EV_CHARGING_CURRENT, SWITCHING_THRESHOLD)

\* ChargeOn without the charger's own draw in the test of a charger that is off
ChargeOn_NoLoad(mode, demand) ==
    \/ mode = ON /\ LeqInt(demand, SWITCHING_THRESHOLD)
    \/ mode = OFF /\ LeqInt(demand, SWITCHING_THRESHOLD)

\* ChargeOn with the charger's own draw added on the wrong side: in the test
\* of a charger that is on, and not in the test of one that is off
ChargeOn_LoadSwapped(mode, demand) ==
    \/ mode = ON /\ PlusLeqInt(demand, EV_CHARGING_CURRENT, SWITCHING_THRESHOLD)
    \/ mode = OFF /\ LeqInt(demand, SWITCHING_THRESHOLD)

\* ChargeOn that takes a charger left on by the value charge time frame for
\* one that is on
ChargeOn_VcCounts(mode, demand) ==
    \/ mode \in {ON, ON_VC} /\ LeqInt(demand, SWITCHING_THRESHOLD)
    \/ mode = OFF /\ PlusLeqInt(demand, EV_CHARGING_CURRENT, SWITCHING_THRESHOLD)

\* the test that decides between switching on and switching off
ChargeOn(mode, demand) ==
    \/ mode = ON /\ LeqInt(demand, SWITCHING_THRESHOLD)
    \/ mode = OFF /\ PlusLeqInt(demand, EV_CHARGING_CURRENT, SWITCHING_THRESHOLD)

\* The result of a switching step: the mode it leaves, its trace, and where
\* the loop goes next.
Switched(mode, log, next) == [current_mode |-> mode, log |-> log, next |-> next]

\* ValueChargeSwitch without the test current_mode != ON_VC around the mail
ValueChargeSwitch_AlwaysMail(mode, demand) ==
    UNION { IF s.ret # ON
            THEN { [current_mode |-> mode, log |-> s.log \o m, next |-> "continue"] :
                     m \in sendmail(ON_VC_ERROR, demand) }
            ELSE { [current_mode |-> ON_VC, log |-> s.log \o m, next |-> "read"] :
                     m \in sendmail(ON_VC, demand) } :
            s \in switch_charger(ON, OFF, HUB2) }

\* ValueChargeSwitch that sets the mode only when the ON_VC mail went out
ValueChargeSwitch_MailGate(mode, demand) ==
    UNION { IF s.ret # ON
            THEN { [current_mode |-> mode, log |-> s.log \o m, next |-> "continue"] :
                     m \in sendmail(ON_VC_ERROR, demand) }
            ELSE (IF mode # ON_VC
                  THEN { [current_mode |-> IF m[1].res = CURLE_OK THEN ON_VC ELSE mode,
                          log |-> s.log \o m, next |-> "read"] :
                           m \in sendmail(ON_VC, demand) }
                  ELSE { [current_mode |-> ON_VC, log |-> s.log, next |-> "read"] }) :
            s \in switch_charger(ON, OFF, HUB2) }

\* value charge: switch on; on failure mail and continue, else mail once and
\* set the mode, then go on to read the meter
ValueChargeSwitch(mode, demand) ==
    UNION { IF s.ret # ON
            THEN { Switched(mode, s.log \o m, "continue") :
                     m \in sendmail(ON_VC_ERROR, demand) }
            ELSE { Switched(ON_VC, s.log \o m, "read") :
                     m \in (IF mode # ON_VC
                            THEN sendmail(ON_VC, demand) ELSE {<< >>}) } :
            s \in switch_charger(ON, OFF, HUB2) }

\* TurnOn that sets the mode to ON before it looks at the command's result
TurnOn_Promoted(mode, demand) ==
    UNION { IF s.ret = ON
            THEN { [current_mode |-> ON, log |-> s.log \o m, next |-> "sleep"] :
                     m \in (IF mode = OFF THEN sendmail(ON, demand) ELSE {<< >>}) }
            ELSE { [current_mode |-> ON, log |-> s.log \o m, next |-> "continue"] :
                     m \in sendmail(ON_ERROR, demand) } :
            s \in switch_charger(ON, OFF, HUB2) }

\* TurnOn that sets the mode to ON only when the ON mail went out, so that
\* the next iteration sends it again
TurnOn_MailGate(mode, demand) ==
    UNION { IF s.ret = ON
            THEN (IF mode = OFF
                  THEN { [current_mode |-> IF m[1].res = CURLE_OK THEN ON ELSE mode,
                          log |-> s.log \o m, next |-> "sleep"] :
                           m \in sendmail(ON, demand) }
                  ELSE { [current_mode |-> ON, log |-> s.log, next |-> "sleep"] })
            ELSE { [current_mode |-> mode, log |-> s.log \o m, next |-> "continue"] :
                     m \in sendmail(ON_ERROR, demand) } :
            s \in switch_charger(ON, OFF, HUB2) }

\* outside value charge, the test said on
TurnOn(mode, demand) ==
    UNION { IF s.ret = ON
            THEN { Switched(ON, s.log \o m, "sleep") :
                     m \in (IF mode = OFF THEN sendmail(ON, demand) ELSE {<< >>}) }
            ELSE { Switched(mode, s.log \o m, "continue") :
                     m \in sendmail(ON_ERROR, demand) } :
            s \in switch_charger(ON, OFF, HUB2) }

\* TurnOff whose failure branch was copied from TurnOn with its mail
TurnOff_WrongMail(mode, demand) ==
    UNION { IF s.ret = OFF
            THEN { [current_mode |-> OFF, log |-> s.log \o m, next |-> "sleep"] :
                     m \in (IF mode = ON_VC THEN sendmail(OFF_VALUE, demand)
                            ELSE IF mode = ON THEN sendmail(OFF_CURRENT, demand)
                            ELSE {<< >>}) }
            ELSE { [current_mode |-> mode, log |-> s.log \o m, next |-> "continue"] :
                     m \in sendmail(ON_ERROR, demand) } :
            s \in switch_charger(OFF, OFF, HUB2) }

\* TurnOff that keeps the error in current_mode when the command failed
TurnOff_StoresError(mode, demand) ==
    UNION { IF s.ret = OFF
            THEN { [current_mode |-> OFF, log |-> s.log \o m, next |-> "sleep"] :
                     m \in (IF mode = ON_VC THEN sendmail(OFF_VALUE, demand)
                            ELSE IF mode = ON THEN sendmail(OFF_CURRENT, demand)
                            ELSE {<< >>}) }
            ELSE { [current_mode |-> OFF_ERROR, log |-> s.log \o m, next |-> "continue"] :
                     m \in sendmail(OFF_ERROR, demand) } :
            s \in switch_charger(OFF, OFF, HUB2) }

\* TurnOff that sends the mail of the switch-off before it sends the command
TurnOff_MailFirst(mode, demand) ==
    UNION { IF s.ret = OFF
            THEN { [current_mode |-> OFF, log |-> m \o s.log, next |-> "sleep"] :
                     m \in (IF mode = ON_VC THEN sendmail(OFF_VALUE, demand)
                            ELSE IF mode = ON THEN sendmail(OFF_CURRENT, demand)
                            ELSE {<< >>}) }
            ELSE { [current_mode |-> mode, log |-> s.log \o m, next |-> "continue"] :
                     m \in sendmail(OFF_ERROR, demand) } :
            s \in switch_charger(OFF, OFF, HUB2) }

\* outside value charge, the test said off
TurnOff(mode, demand) ==
    UNION { IF s.ret = OFF
            THEN { Switched(OFF, s.log \o m, "sleep") :
                     m \in (IF mode = ON_VC THEN sendmail(OFF_VALUE, demand)
                            ELSE IF mode = ON THEN sendmail(OFF_CURRENT, demand)
                            ELSE {<< >>}) }
            ELSE { Switched(mode, s.log \o m, "continue") :
                     m \in sendmail(OFF_ERROR, demand) } :
            s \in switch_charger(OFF, OFF, HUB2) }

\* outside value charge, after a reading was taken
PeakSwitch(mode, demand) ==
    IF ChargeOn(mode, demand) THEN TurnOn(mode, demand) ELSE TurnOff(mode, demand)

\* ------------------------------------------------------------ main: startup

\* StartupSequence that exits when the gateway's power-on command fails
StartupSequence_GatewayFatal(demand) ==
    UNION { IF s.ret # OFF \/ g[1].res # CURLE_OK
            THEN { [log |-> g \o s.log, next |-> "exit"] }
            ELSE { [log |-> g \o s.log \o m \o Sleep(GATEWAY_BOOT_SECONDS),
                    next |-> "while"] : m \in sendmail(OFF_STARTUP, demand) } :
            g \in turn_gateway_on(HUB2), s \in switch_charger(OFF, OFF, HUB2) }

\* main() up to the loop: gateway on, charger off (or exit), mail, sleep(60)
StartupSequence(demand) ==
    UNION { IF s.ret # OFF
            THEN { [log |-> g \o s.log, next |-> "exit"] }
            ELSE { [log |-> g \o s.log \o m \o Sleep(GATEWAY_BOOT_SECONDS),
                    next |-> "while"] : m \in sendmail(OFF_STARTUP, demand) } :
            g \in turn_gateway_on(HUB2), s \in switch_charger(OFF, OFF, HUB2) }

\* ------------------------------------------------------------ the relay

\* The charger's outlet: an acknowledged command takes effect, a failed one
\* changes nothing.
RECURSIVE RelayAfter(_, _)
RelayAfter(on, log) ==
    IF log = << >> THEN on
    ELSE LET e == Head(log) IN
         RelayAfter(IF e.res = CURLE_OK /\ e.op = "switch_on_url2" THEN TRUE
                    ELSE IF e.res = CURLE_OK /\ e.op = "switch_off_url2" THEN FALSE
                    ELSE on,
                    Tail(log))

\* ------------------------------------------------------------ state

VARIABLES
    pc,            \* where main() is: "main", "while", "value_charge",
                   \* "value_charge_read", "peak", "peak_switch", "sleep",
                   \* "exit" (exit(-1)) or "crash"; in ParseSpec "parse"
                   \* and "parsed"; in TransferSpec "perform", "performed",
                   \* "cleaned", "inspected" and "returned"
    current_mode,  \* main's current_mode
    actual_demand, \* the global actual_demand
    parse_buffer,  \* the global parse_buffer: << >> is NULL
    tm_hour,       \* timeinfo->tm_hour
    relay,         \* whether the charger's outlet is on
    log,           \* the trace of the startup or of the iteration under way
    mode_before,   \* current_mode when that startup or iteration began
    last,          \* what log is the trace of: "none", "startup", "iteration"
                   \* (in RetrySpec also "retry")
    prev_mode_before, \* mode_before of the iteration before that one
    base_demand,   \* what the house draws without the charger, in kW
    value_charge   \* the start and end hours the program was built with

vars == << pc, current_mode, actual_demand, parse_buffer, tm_hour, relay, log,
           mode_before, last, prev_mode_before, base_demand,
                    value_charge >>

\* VALUE_CHARGE_START_HOUR and VALUE_CHARGE_END_HOUR as shipped
ShippedWindow ==
    [start |-> VALUE_CHARGE_START_HOUR, end |-> VALUE_CHARGE_END_HOUR]

Init ==
    /\ pc = "main"
    /\ current_mode = OFF
    /\ actual_demand = Zero
    /\ parse_buffer = << >>
    /\ tm_hour \in Hours
    /\ relay \in BOOLEAN
    /\ log = << >>
    /\ mode_before = OFF
    /\ last = "none"
    /\ prev_mode_before = OFF
    /\ base_demand = Zero
    /\ value_charge = ShippedWindow

\* main() before the loop
Startup ==
    /\ pc = "main"
    /\ \E o \in StartupSequence(actual_demand) :
          /\ pc' = o.next
          /\ log' = o.log
          /\ relay' = RelayAfter(relay, o.log)
    /\ mode_before' = current_mode
    /\ last' = "startup"
    /\ UNCHANGED << current_mode, actual_demand, parse_buffer, tm_hour,
                    prev_mode_before, base_demand,
                    value_charge >>

\* the top of the loop: read the clock and take a branch
Clock ==
    /\ pc = "while"
    /\ \E hour \in Hours :
          /\ tm_hour' = hour
          /\ pc' = IF ValueCharge(hour) THEN "value_charge" ELSE "peak"
    /\ log' = << >>
    /\ mode_before' = current_mode
    /\ prev_mode_before' = mode_before
    /\ last' = "iteration"
    /\ UNCHANGED << current_mode, actual_demand, parse_buffer, relay, base_demand,
                    value_charge >>

\* value charge: the switch command with its mail and mode update
ValueChargeStep ==
    /\ pc = "value_charge"
    /\ \E o \in ValueChargeSwitch(current_mode, actual_demand) :
          /\ current_mode' = o.current_mode
          /\ log' = log \o o.log
          /\ relay' = RelayAfter(relay, o.log)
          /\ pc' = IF o.next = "continue" THEN "while" ELSE "value_charge_read"
    /\ UNCHANGED << actual_demand, parse_buffer, tm_hour, mode_before, last,
                    prev_mode_before, base_demand,
                    value_charge >>

\* value charge: the reading taken only to print it
ValueChargeRead ==
    /\ pc = "value_charge_read"
    /\ \E r \in get_meter_reading :
          /\ actual_demand' = r.actual_demand
          /\ parse_buffer' = r.parse_buffer
          /\ log' = log \o r.log
          /\ pc' = IF r.crash THEN "crash" ELSE "sleep"
    /\ UNCHANGED << current_mode, tm_hour, relay, mode_before, last,
                    prev_mode_before, base_demand,
                    value_charge >>

\* PeakRead that goes on to the switching test after a failed read
PeakRead_Fallback ==
    /\ pc = "peak"
    /\ \E r \in get_meter_reading :
          /\ actual_demand' = r.actual_demand
          /\ parse_buffer' = r.parse_buffer
          /\ log' = log \o r.log
          /\ pc' = IF r.crash THEN "crash" ELSE "peak_switch"
    /\ UNCHANGED << current_mode, tm_hour, relay, mode_before, last,
                    prev_mode_before, base_demand,
                    value_charge >>

\* PeakRead whose failed read leaves the previous reading in actual_demand
PeakRead_NoReset ==
    /\ pc = "peak"
    /\ \E r \in get_meter_reading :
          /\ actual_demand' = IF r.ret = 0 THEN actual_demand ELSE r.actual_demand
          /\ parse_buffer' = r.parse_buffer
          /\ log' = log \o r.log
          /\ pc' = IF r.crash THEN "crash"
                   ELSE IF r.ret # 0 THEN "peak_switch" ELSE "sleep"
    /\ UNCHANGED << current_mode, tm_hour, relay, mode_before, last,
                    prev_mode_before, base_demand,
                    value_charge >>

\* outside value charge: the reading
PeakRead ==
    /\ pc = "peak"
    /\ \E r \in get_meter_reading :
          /\ actual_demand' = r.actual_demand
          /\ parse_buffer' = r.parse_buffer
          /\ log' = log \o r.log
          /\ pc' = IF r.crash THEN "crash"
                   ELSE IF r.ret # 0 THEN "peak_switch" ELSE "sleep"
    /\ UNCHANGED << current_mode, tm_hour, relay, mode_before, last,
                    prev_mode_before, base_demand,
                    value_charge >>

\* outside value charge: the switch command with its mail and mode update
PeakSwitchStep ==
    /\ pc = "peak_switch"
    /\ \E o \in PeakSwitch(current_mode, actual_demand) :
          /\ current_mode' = o.current_mode
          /\ log' = log \o o.log
          /\ relay' = RelayAfter(relay, o.log)
          /\ pc' = IF o.next = "continue" THEN "while" ELSE "sleep"
    /\ UNCHANGED << actual_demand, parse_buffer, tm_hour, mode_before, last,
                    prev_mode_before, base_demand,
                    value_charge >>

\* the bottom of the loop
SleepStep ==
    /\ pc = "sleep"
    /\ log' = log \o Sleep(SLEEP_SECONDS)
    /\ pc' = "while"
    /\ UNCHANGED << current_mode, actual_demand, parse_buffer, tm_hour, relay,
                    mode_before, last, prev_mode_before, base_demand,
                    value_charge >>

Next ==
    \/ Startup
    \/ Clock
    \/ ValueChargeStep
    \/ ValueChargeRead
    \/ PeakRead
    \/ PeakSwitchStep
    \/ SleepStep

Spec == Init /\ [][Next]_vars

\* ------------------------------------------------------------ the time frame test alone
\*
\* The top of the loop for a program built with any start and end hour.

WindowInit ==
    /\ pc = "while"
    /\ value_charge \in [start : 0..23, end : 0..23]
    /\ current_mode = OFF
    /\ actual_demand = Zero
    /\ parse_buffer = << >>
    /\ tm_hour = 0
    /\ relay = FALSE
    /\ log = << >>
    /\ mode_before = OFF
    /\ last = "startup"
    /\ prev_mode_before = OFF
    /\ base_demand = Zero

\* the clock read and the branch taken
WindowClock ==
    /\ pc = "while"
    /\ \E hour \in 0..23 :
          /\ tm_hour' = hour
          /\ pc' = IF ValueChargeTest(hour, value_charge.start, value_charge.end)
                   THEN "value_charge" ELSE "peak"
    /\ log' = << >>
    /\ mode_before' = current_mode
    /\ prev_mode_before' = mode_before
    /\ last' = "iteration"
    /\ UNCHANGED << current_mode, actual_demand, parse_buffer, relay, base_demand,
                    value_charge >>

WindowNext == WindowClock

WindowSpec == WindowInit /\ [][WindowNext]_vars

\* ------------------------------------------------------------ the parser alone
\*
\* get_meter_reading() from the point where the transfer has succeeded and
\* parse_buffer points at a complete answer, for more tokens than the loop
\* above is run with.

\* the demand tokens of the loop, and "0xffffffff", "0xffff0000" (f in the
\* third character), "0x00f000" (f further on)
ParseDemandTokens ==
    DemandTokens
    \cup { <<15,15,15,15,15,15,15,15>>, <<15,15,15,15,0,0,0,0>>, <<0,0,15,0,0,0>> }

\* "0x00000000" to "0x00000003"
ParseMultiplierTokens == { <<0,0,0,0,0,0,0,k>> : k \in 0..3 }

\* "0x00000000", "0x00000001", "0x0000000a", "0x000003e8"
ParseDivisorTokens ==
    { <<0,0,0,0,0,0,0,0>>, <<0,0,0,0,0,0,0,1>>, <<0,0,0,0,0,0,0,10>>,
      <<0,0,0,0,0,3,14,8>> }

ParseInit ==
    /\ pc = "parse"
    /\ parse_buffer \in { << Body(d, m, v, FALSE, FALSE) >> :
                             d \in ParseDemandTokens, m \in ParseMultiplierTokens,
                             v \in ParseDivisorTokens }
    /\ current_mode = OFF
    /\ actual_demand = Zero
    /\ tm_hour = 12
    /\ relay = FALSE
    /\ log = << >>
    /\ mode_before = OFF
    /\ last = "none"
    /\ prev_mode_before = OFF
    /\ base_demand = Zero
    /\ value_charge = ShippedWindow

\* lines 457 to 525 of get_meter_reading()
Parse ==
    /\ pc = "parse"
    /\ \E r \in ParseResponse(parse_buffer) :
          /\ actual_demand' = r.actual_demand
          /\ log' = r.log
          /\ pc' = IF r.crash THEN "crash" ELSE "parsed"
    /\ UNCHANGED << current_mode, parse_buffer, tm_hour, relay, mode_before, last,
                    prev_mode_before, base_demand,
                    value_charge >>

ParseNext == Parse

ParseSpec == ParseInit /\ [][ParseNext]_vars

\* ------------------------------------------------------------ a steady house
\*
\* The loop outside the value charge time frame, seen with a house whose own
\* draw does not change: the meter shows that draw while the charger's outlet
\* is off and that draw plus the charger's while it is on, and every meter
\* call and every switch command succeeds.  The mail server still answers
\* as it likes.

\* the sum of two fractions
Plus(a, b) == [num |-> a.num * b.den + b.num * a.den, den |-> a.den * b.den]

\* what the meter shows
MeterShows(base, on) == IF on THEN Plus(base, EV_CHARGING_CURRENT) ELSE base

\* the draws of the house, in kW: -2.0, -1.4, -0.5 and 0
SteadyBases == { Frac(-2000, 1000), Frac(-1400, 1000), Frac(-500, 1000), Frac(0, 1000) }

\* the loop is entered, or re-entered after earlier iterations, with the
\* charger off, on, or on from the value charge time frame
SteadyInit ==
    /\ pc = "while"
    /\ current_mode \in {OFF, ON, ON_VC}
    /\ relay = (current_mode # OFF)
    /\ base_demand \in SteadyBases
    /\ value_charge = ShippedWindow
    /\ actual_demand = Zero
    /\ parse_buffer = << >>
    /\ tm_hour \in { h \in Hours : ~ValueCharge(h) }
    /\ log = << >>
    /\ mode_before = current_mode
    /\ prev_mode_before = current_mode
    /\ last = "startup"

\* the clock stays outside the value charge time frame
SteadyClock == Clock /\ ~ValueCharge(tm_hour')

\* the meter call succeeds and reports what the meter shows
SteadyRead ==
    /\ PeakRead
    /\ pc' = "peak_switch"
    /\ FracEq(actual_demand', MeterShows(base_demand, relay))

\* the switch command is acknowledged
SteadySwitch == PeakSwitchStep /\ pc' = "sleep"

SteadyNext ==
    \/ SteadyClock
    \/ SteadyRead
    \/ SteadySwitch
    \/ SleepStep

SteadySpec == SteadyInit /\ [][SteadyNext]_vars

\* ------------------------------------------------------------ reading the trace

\* an iteration of the loop has just ended and the next has not begun
IterationDone == pc = "while" /\ last = "iteration"

SwitchOps == {"switch_on_url2", "switch_off_url2", "switch_on_top_url2"}

SuccessEvents == {ON, ON_VC, OFF_CURRENT, OFF_VALUE}
ErrorEvents == {ON_ERROR, OFF_ERROR, ON_VC_ERROR}
RebootEvents == {REBOOT_GATEWAY_TIMEOUT, REBOOT_GATEWAY_UNAVAILABLE}

\* the positions of the trace that hold a switch_charger() call, a mail of
\* one of the given kinds, a get_meter_reading() call
Switches == { i \in DOMAIN log : log[i].op \in SwitchOps }
Mails(kinds) == { i \in DOMAIN log : log[i].op = "sendmail" /\ log[i].arg \in kinds }
Reads == { i \in DOMAIN log : log[i].op = "get_meter_reading" }
AllMails == { i \in DOMAIN log : log[i].op = "sendmail" }

SwitchFailed == \E i \in Switches : log[i].res # CURLE_OK
SwitchAcknowledged == \E i \in Switches : log[i].res = CURLE_OK
ReadSucceeded == \E i \in Reads : log[i].arg = 1
ReadFailed == \E i \in Reads : log[i].arg = 0
TransportFailed == \E i \in Reads : log[i].res # CURLE_OK

\* the hour lies in the shipped low-cost window, 23:00 to 07:00
InWindow == tm_hour >= 23 \/ tm_hour < 7

EndsWithSleep ==
    /\ log # << >>
    /\ log[Len(log)].op = "sleep"
    /\ log[Len(log)].arg = SLEEP_SECONDS

RelayMatchesMode ==
    /\ current_mode \in {OFF, ON, ON_VC}
    /\ relay <=> current_mode \in {ON, ON_VC}
    /\ ~relay <=> current_mode = OFF

\* ------------------------------------------------------------ claims

\* C1: at loop entry and at every boundary between two iterations the relay
\* is on exactly when current_mode is ON or ON_VC and off exactly when it is
\* OFF, whatever the reads and the switch commands answered.
C1_ModeReflectsRelay ==
    (pc = "while" /\ last \in {"startup", "iteration"}) => RelayMatchesMode

\* an iteration whose OFF command failed ends with the mode still ON and the
\* relay still on
C1_Witness ==
    /\ IterationDone
    /\ SwitchFailed
    /\ mode_before = ON
    /\ current_mode = ON
    /\ relay

\* C2: an iteration whose switch_charger() call failed leaves current_mode as
\* it was and sends exactly one mail, the error mail of the attempted command:
\* ON_VC_ERROR in the low-cost window, ON_ERROR for an ON attempt and
\* OFF_ERROR for an OFF attempt outside it; it sends no success mail.
C2_FailedSwitchKeepsMode ==
    (IterationDone /\ SwitchFailed) =>
        /\ current_mode = mode_before
        /\ Cardinality(Switches) = 1
        /\ Cardinality(Mails(ErrorEvents)) = 1
        /\ Mails(SuccessEvents) = {}
        /\ \A i \in Switches : \A j \in Mails(ErrorEvents) :
              log[j].arg = IF InWindow THEN ON_VC_ERROR
                           ELSE IF log[i].arg = ON THEN ON_ERROR
                           ELSE OFF_ERROR

\* a failed OFF command on leaving the window: OFF_ERROR, mode still ON_VC
C2_Witness ==
    /\ IterationDone
    /\ SwitchFailed
    /\ ~InWindow
    /\ mode_before = ON_VC
    /\ Mails({OFF_ERROR}) # {}

\* C3: outside the window, with the read and the switch command both
\* successful and the mode ON before: demand <= threshold leaves the mode ON
\* (equality included) and demand > threshold leaves it OFF.
C3_OnStaysOnIffSurplus ==
    (IterationDone /\ ~InWindow /\ ReadSucceeded /\ SwitchAcknowledged
        /\ mode_before = ON) =>
        IF actual_demand.num <= SWITCHING_THRESHOLD * actual_demand.den
        THEN current_mode = ON
        ELSE current_mode = OFF

\* the tie: a reading of exactly the threshold keeps the charger on
C3_Witness ==
    /\ IterationDone /\ ~InWindow /\ ReadSucceeded /\ SwitchAcknowledged
    /\ mode_before = ON
    /\ actual_demand.num = SWITCHING_THRESHOLD * actual_demand.den
    /\ current_mode = ON

\* C4: outside the window, with the read and the switch command both
\* successful and the mode OFF before: demand + 1.4 <= threshold turns the
\* mode ON, anything else leaves it OFF.
C4_OffTurnsOnIffRoom ==
    (IterationDone /\ ~InWindow /\ ReadSucceeded /\ SwitchAcknowledged
        /\ mode_before = OFF) =>
        IF 10 * actual_demand.num + 14 * actual_demand.den
              <= 10 * SWITCHING_THRESHOLD * actual_demand.den
        THEN current_mode = ON
        ELSE current_mode = OFF

\* the tie: a reading of exactly -1.4 kW turns the charger on
C4_Witness ==
    /\ IterationDone /\ ~InWindow /\ ReadSucceeded /\ SwitchAcknowledged
    /\ mode_before = OFF
    /\ 10 * actual_demand.num + 14 * actual_demand.den = 0
    /\ current_mode = ON

\* C5: in the low-cost window the first thing an iteration does is the ON
\* command, it never commands OFF, and once that command is acknowledged the
\* mode is ON_VC from then to the end of the iteration, whatever the mode
\* was and whatever the meter read that follows returns.
C5_WindowForcesOnVc ==
    (last = "iteration" /\ InWindow /\ pc # "value_charge") =>
        /\ log # << >>
        /\ log[1].op = "switch_on_url2"
        /\ Switches = {1}
        /\ log[1].res = CURLE_OK => current_mode = ON_VC
        /\ log[1].res # CURLE_OK => Reads = {}

\* hour 23, the mode was ON, the meter read failed, the mode is ON_VC
C5_Witness ==
    /\ IterationDone /\ tm_hour = 23
    /\ mode_before = ON
    /\ ReadFailed
    /\ current_mode = ON_VC

\* the success mail that tells why the mode went from one value to another
Cause(before, after) ==
    IF after = ON_VC THEN ON_VC
    ELSE IF after = ON THEN ON
    ELSE IF before = ON_VC THEN OFF_VALUE
    ELSE OFF_CURRENT

\* C6 as stated: an iteration that ends in the mode it started in sends no
\* mail at all, and one that changes the mode sends exactly one mail, of the
\* kind that matches the transition.
C6_Original ==
    IterationDone =>
        /\ current_mode = mode_before => AllMails = {}
        /\ current_mode # mode_before =>
              /\ Cardinality(AllMails) = 1
              /\ \A j \in AllMails : log[j].arg = Cause(mode_before, current_mode)

\* C6, amended: of the success mails (ON, ON_VC, OFF_CURRENT, OFF_VALUE) an
\* iteration that ends in the mode it started in sends none and one that
\* changes the mode sends exactly one, of the kind that matches the
\* transition; the only other mails of an iteration are one error mail when
\* its switch command failed and the reboot mails of its meter read.
C6_OneSuccessMailPerChange ==
    IterationDone =>
        /\ current_mode = mode_before => Mails(SuccessEvents) = {}
        /\ current_mode # mode_before =>
              /\ Cardinality(Mails(SuccessEvents)) = 1
              /\ \A j \in Mails(SuccessEvents) :
                    log[j].arg = Cause(mode_before, current_mode)
        /\ Cardinality(Mails(ErrorEvents)) = IF SwitchFailed THEN 1 ELSE 0
        /\ AllMails = Mails(SuccessEvents \cup ErrorEvents \cup RebootEvents)
        /\ Mails(RebootEvents) # {} => ReadFailed

\* the mode went from ON to ON_VC with one ON_VC mail, and the read that
\* followed rebooted the gateway and sent its own mail
C6_Witness ==
    /\ IterationDone
    /\ mode_before = ON
    /\ current_mode = ON_VC
    /\ Mails({ON_VC}) # {}
    /\ Mails(RebootEvents) # {}

\* C7: every iteration ends with the sleep of SLEEP_SECONDS, whatever
\* happened in it, so that two iterations never start less than
\* SLEEP_SECONDS apart.
C7_SleepBetweenIterations == IterationDone => EndsWithSleep

\* C8: outside the window an iteration whose meter read failed (no handle,
\* failed transfer, no body, no <Demand> with or without a fault signature)
\* issues no switch command, keeps current_mode, sends no success or error
\* mail, and ends with the sleep; the relay stays as the mode says.
C8_FailedReadSkipsIteration ==
    (IterationDone /\ ~InWindow /\ ReadFailed) =>
        /\ Switches = {}
        /\ current_mode = mode_before
        /\ Mails(SuccessEvents \cup ErrorEvents) = {}
        /\ EndsWithSleep
        /\ RelayMatchesMode

\* the mode ON_VC and the relay on are kept through a peak iteration whose
\* read met a gateway fault
C8_Witness ==
    /\ IterationDone /\ ~InWindow /\ ReadFailed
    /\ mode_before = ON_VC
    /\ current_mode = ON_VC
    /\ relay
    /\ Mails(RebootEvents) # {}

\* C9 as stated: in or out of the window, an iteration whose meter read ended
\* in a transport failure has actual_demand = 0 and ends in the mode it
\* started in.
C9_Original ==
    (IterationDone /\ TransportFailed) =>
        /\ FracEq(actual_demand, Zero)
        /\ current_mode = mode_before

\* C9, amended: from the return of a meter read that ended in a transport
\* failure to the end of the iteration actual_demand is 0; outside the window
\* the iteration ends in the mode it started in, and inside the window it
\* ends in ON_VC (the read there follows the acknowledged ON command that has
\* already set the mode).
C9_TransportFailureZeroesDemand ==
    (last = "iteration" /\ TransportFailed) =>
        /\ actual_demand = Zero
        /\ pc \in {"sleep", "while"}
        /\ IF InWindow THEN current_mode = ON_VC ELSE current_mode = mode_before

\* a failed transfer outside the window while the charger is on: the mode is
\* still ON and the demand is 0
C9_Witness ==
    /\ IterationDone /\ TransportFailed
    /\ ~InWindow
    /\ mode_before = ON
    /\ current_mode = ON
    /\ actual_demand = Zero

\* a response without <Demand> that holds a fault signature was parsed
FaultParsed ==
    /\ last = "iteration"
    /\ \E i \in Reads : log[i].res = CURLE_OK
    /\ parse_buffer # << >>
    /\ parse_buffer[1].Demand = NoTok
    /\ parse_buffer[1].Timeout \/ parse_buffer[1].Unavailable

Ops(op) == { i \in DOMAIN log : log[i].op = op }

\* C10: a response without <Demand> that holds "Request Timeout", "Service
\* Unavailable" or both makes get_meter_reading() reboot the gateway exactly
\* once (off, wait, on, wait), send exactly one reboot mail, and return 0.
C10_OneRebootPerFault ==
    (FaultParsed /\ pc \in {"sleep", "while"}) =>
        /\ Cardinality(Ops("turn_gateway_off")) = 1
        /\ Cardinality(Ops("turn_gateway_on")) = 1
        /\ Cardinality(Mails(RebootEvents)) = 1
        /\ ReadFailed

\* C11: the process leaves main() only through the exit(-1) that follows a
\* failed OFF command at startup; once the loop has been entered no answer of
\* the meter, the hub or the mail server ends it: the program is never at
\* exit from inside the loop and never crashes.
C11_LoopNeverTerminates ==
    /\ pc = "exit" =>
          /\ last = "startup"
          /\ \E i \in Switches :
                log[i].op = "switch_off_url2" /\ log[i].res # CURLE_OK
    /\ pc # "crash"

\* C12: with a steady house outside the value charge time frame, and every
\* read and switch command successful, an iteration that takes the mode from
\* OFF to ON is never followed by one that takes it from ON to OFF, and an
\* iteration that takes it from ON to OFF is never followed by one that
\* takes it from OFF to ON.
C12_NoChatter ==
    IterationDone =>
        /\ ~(prev_mode_before = OFF /\ mode_before = ON /\ current_mode = OFF)
        /\ ~(prev_mode_before = ON /\ mode_before = OFF /\ current_mode = ON)

\* the house exports exactly the charger's draw: the charger was switched on
\* by one iteration and, the meter now showing 0, is kept on by the next
C12_Witness ==
    /\ IterationDone
    /\ FracEq(base_demand, Frac(-14, 10))
    /\ prev_mode_before = OFF /\ mode_before = ON /\ current_mode = ON
    /\ relay
    /\ FracEq(actual_demand, Zero)

\* C13: every demand value an iteration works with was produced by a meter
\* read of that same iteration: a mail that shows a reading is sent after the
\* iteration's read and shows its result (0 when it failed), and outside the
\* value charge time frame the switch command follows the read it is
\* decided from.
C13_NoStaleDemand ==
    last = "iteration" =>
        /\ \A j \in AllMails :
              log[j].reading # << >> =>
                  /\ \E i \in Reads : i < j
                  /\ log[j].reading[1] = actual_demand
        /\ ~InWindow => \A k \in Switches : \E i \in Reads : i < k

\* C14: every reboot of the gateway is, in this order, the power-off command,
\* a wait of 5 s, the power-on command and a wait of 60 s, whatever the two
\* commands answer; neither is issued a second time, and reboot_gateway()
\* returns: the reboot mail follows the second wait.
C14_RebootSequence ==
    (last = "iteration" /\ pc \in {"sleep", "while"}) =>
        /\ \A i \in Ops("turn_gateway_off") :
              /\ i + 4 <= Len(log)
              /\ log[i].arg = HUB2
              /\ log[i + 1].op = "sleep" /\ log[i + 1].arg = 5
              /\ log[i + 2].op = "turn_gateway_on" /\ log[i + 2].arg = HUB2
              /\ log[i + 3].op = "sleep" /\ log[i + 3].arg = 60
              /\ log[i + 4].op = "sendmail" /\ log[i + 4].arg \in RebootEvents
        /\ \A i \in Ops("turn_gateway_on") :
              i > 2 /\ log[i - 2].op = "turn_gateway_off"

\* the power-off command failed and the power-on command was issued all the
\* same, and acknowledged
C14_Witness ==
    /\ IterationDone
    /\ \E i \in Ops("turn_gateway_off") :
          /\ log[i].res # CURLE_OK
          /\ i + 2 <= Len(log)
          /\ log[i + 2].op = "turn_gateway_on"
          /\ log[i + 2].res = CURLE_OK

\* the gateway was powered off or on, or a reboot mail was sent
GatewayCycled ==
    \/ Ops("turn_gateway_off") # {}
    \/ Ops("turn_gateway_on") # {}
    \/ Mails(RebootEvents) # {}

\* C15: inside the loop the gateway is powered off and on, and a reboot mail
\* is sent, only by a meter read whose transfer succeeded and whose text has
\* no <Demand> and holds "Request Timeout" or "Service Unavailable"; the
\* mail names a signature the text holds.  A failed transfer, a text without
\* <Demand> and without signature, and a text with <Demand> never do.
C15_RebootOnlyOnFault ==
    (last = "iteration" /\ GatewayCycled) =>
        /\ \E i \in Reads :
              /\ log[i].res = CURLE_OK
              /\ log[i].arg = 0
              /\ \A j \in DOMAIN log :
                    (log[j].op \in {"turn_gateway_off", "turn_gateway_on"}
                        \/ (log[j].op = "sendmail" /\ log[j].arg \in RebootEvents))
                    => i < j
        /\ parse_buffer # << >>
        /\ parse_buffer[1].Demand = NoTok
        /\ parse_buffer[1].Timeout \/ parse_buffer[1].Unavailable
        /\ Mails({REBOOT_GATEWAY_TIMEOUT}) # {} => parse_buffer[1].Timeout
        /\ Mails({REBOOT_GATEWAY_UNAVAILABLE}) # {} => parse_buffer[1].Unavailable

\* a text with "Service Unavailable" alone: the gateway was rebooted and the
\* mail for that signature sent
C15_Witness ==
    /\ IterationDone
    /\ Ops("turn_gateway_off") # {}
    /\ Mails({REBOOT_GATEWAY_UNAVAILABLE}) # {}
    /\ parse_buffer # << >>
    /\ ~parse_buffer[1].Timeout

\* the mode a success mail announces
Announced(event) ==
    IF event = ON_VC THEN ON_VC
    ELSE IF event = ON THEN ON
    ELSE OFF

\* C16: a success mail whose dispatch failed is the only success mail of its
\* iteration (it is not sent again), the mode it announces is set all the
\* same, and the loop goes on; and no iteration, this one or a later one,
\* sends a success mail for a mode it already started in, so a lost mail is
\* never made up for.
C16_FailedMailNotRetried ==
    last = "iteration" =>
        \A j \in Mails(SuccessEvents) :
            /\ Announced(log[j].arg) # mode_before
            /\ log[j].res # CURLE_OK =>
                  /\ Mails(SuccessEvents) = {j}
                  /\ current_mode = Announced(log[j].arg)
                  /\ pc \notin {"main", "exit"}
                  /\ log[j].arg \in {ON, OFF_CURRENT, OFF_VALUE} => pc \in {"sleep", "while"}

\* the ON mail was lost, the mode is ON and the iteration is over
C16_Witness ==
    /\ IterationDone
    /\ mode_before = OFF
    /\ current_mode = ON
    /\ \E j \in Mails({ON}) : log[j].res # CURLE_OK
    /\ EndsWithSleep

\* C17: a call of switch_charger() makes one attempt and no second one: it
\* returns the requested state when the command succeeded and -1 when it
\* failed; and an iteration of the loop holds at most one switch command,
\* after which the mode is the requested one if it was acknowledged and the
\* old one if not.
C17_OneCommandPerCall ==
    /\ \A mode \in {ON, OFF} : \A top \in {ON, OFF} :
          \A s \in switch_charger(mode, top, HUB2) :
              /\ Len(s.log) = 1
              /\ s.log[1].op \in SwitchOps
              /\ s.log[1].arg = mode
              /\ s.log[1].res = CURLE_OK => s.ret = mode
              /\ s.log[1].res # CURLE_OK => s.ret = -1
    /\ last = "iteration" =>
          /\ Cardinality(Switches) <= 1
          /\ \A i \in Switches :
                IF log[i].res # CURLE_OK THEN current_mode = mode_before
                ELSE IF log[i].arg = ON THEN current_mode \in {ON, ON_VC}
                ELSE current_mode = OFF

\* an ON command that failed outside the value charge time frame: it is the
\* only command of its iteration
C17_Witness ==
    /\ IterationDone /\ ~InWindow
    /\ Cardinality(Switches) = 1
    /\ \E i \in Switches : log[i].arg = ON /\ log[i].res = CURLE_COULDNT_CONNECT
    /\ mode_before = OFF
    /\ current_mode = OFF

\* the mail at position j shows the value actual_demand had when it was sent:
\* the result of the latest read, of this iteration if one came before the
\* mail (a read that comes after the mail has since replaced the value)
ShowsLatestReading(j) ==
    /\ Len(log[j].reading) = 1
    /\ (Reads = {} \/ \E i \in Reads : i < j) => log[j].reading[1] = actual_demand

\* C18 as stated: every mail shows the most recent demand reading, except the
\* two reboot mails, which are the only mails without a reading.
C18_Original ==
    \A j \in AllMails :
        IF log[j].arg \in {REBOOT_GATEWAY_TIMEOUT, REBOOT_GATEWAY_UNAVAILABLE}
        THEN log[j].reading = << >>
        ELSE ShowsLatestReading(j)

\* C18, amended: every mail shows the most recent demand reading, except the
\* two reboot mails and the startup mail OFF_STARTUP, which are the only
\* mails without a reading.
C18_ReadingInMails ==
    \A j \in AllMails :
        IF log[j].arg \in
              {REBOOT_GATEWAY_TIMEOUT, REBOOT_GATEWAY_UNAVAILABLE, OFF_STARTUP}
        THEN log[j].reading = << >>
        ELSE /\ log[j].arg \in {ON, OFF_CURRENT, OFF_VALUE, ON_ERROR, OFF_ERROR,
                                 ON_VC, ON_VC_ERROR}
             /\ ShowsLatestReading(j)

\* an OFF_ERROR mail that shows the 5.944 kW just read, in a run whose
\* startup mail showed none
C18_Witness ==
    /\ IterationDone
    /\ \E j \in Mails({OFF_ERROR}) :
          /\ log[j].reading = << actual_demand >>
          /\ FracEq(actual_demand, Frac(5944, 1000))

\* C19: for every raw demand, multiplier and divisor parsed, the stored
\* demand is raw * m' / d', m' the multiplier or 1 if it is 0, d' the divisor
\* or 1 if it is 0; raw 5944, multiplier 0, divisor 1000 gives 5.944; the
\* division is never by zero.
C19_ScaledDemand ==
    pc = "parsed" =>
        LET b == parse_buffer[1]
            raw == RawDemand(b.Demand)
            m == HexVal(b.Multiplier)
            d == HexVal(b.Divisor)
            m1 == IF m = 0 THEN 1 ELSE m
            d1 == IF d = 0 THEN 1 ELSE d
        IN  /\ actual_demand.den # 0
            /\ actual_demand.num * d1 = raw * m1 * actual_demand.den
            /\ (raw = 5944 /\ m = 0 /\ d = 1000) =>
                  1000 * actual_demand.num = 5944 * actual_demand.den

\* the example of the claim, and a multiplier that counts: raw 5944,
\* multiplier 0, divisor 1000 is 5.944
C19_Witness ==
    /\ pc = "parsed"
    /\ HexVal(parse_buffer[1].Demand) = 5944
    /\ HexVal(parse_buffer[1].Multiplier) = 0
    /\ HexVal(parse_buffer[1].Divisor) = 1000
    /\ actual_demand.den # 0
    /\ 1000 * actual_demand.num = 5944 * actual_demand.den

\* C20: a demand token whose third character (the first hex digit) is f is
\* taken as -(0xFFFFFFFF - raw), every other token as raw.  For the
\* eight-digit tokens checked, 0xFFFFFFFF and raw both start with the digit
\* f, and their difference is that of the seven digits left: (16^7 - 1) less
\* the value of the token's tail.  Seen where multiplier and divisor are 1.
C20_NegativeDemand ==
    (pc = "parsed" /\ HexVal(parse_buffer[1].Multiplier) = 1
        /\ HexVal(parse_buffer[1].Divisor) = 1) =>
        LET tok == parse_buffer[1].Demand IN
        /\ actual_demand.den # 0
        /\ IF tok[1] = 15
           THEN /\ Len(tok) = 8
                /\ actual_demand.num =
                      (0 - ((16^7 - 1) - HexVal(Tail(tok)))) * actual_demand.den
           ELSE actual_demand.num = HexVal(tok) * actual_demand.den

\* "0xfffffa87" is taken as -1400
C20_Witness ==
    /\ pc = "parsed"
    /\ parse_buffer[1].Demand = <<15,15,15,15,15,10,8,7>>
    /\ HexVal(parse_buffer[1].Multiplier) = 1
    /\ HexVal(parse_buffer[1].Divisor) = 1
    /\ actual_demand.den # 0
    /\ actual_demand.num = (0 - 1400) * actual_demand.den

\* C21: for every start and end hour in 0..23 and every hour h, the loop
\* takes the value charge branch exactly when h lies in the half-open
\* interval from start (included) to end (excluded), taken modulo 24.  (A
\* time frame whose start and end are the same hour, which can be read as no
\* hour or as every hour, is left aside.)
C21_WindowIsInterval ==
    (pc \in {"value_charge", "peak"} /\ value_charge.start # value_charge.end) =>
        (pc = "value_charge"
            <=> (tm_hour - value_charge.start + 24) % 24
                    < (value_charge.end - value_charge.start + 24) % 24)

\* C22: in every state current_mode is OFF, ON or ON_VC; the other values
\* of the enum reach sendmail() alone: a switch command is given ON or OFF
\* and nothing else.
C22_ModeIsOffOnOrOnVc ==
    /\ current_mode \in {OFF, ON, ON_VC}
    /\ mode_before \in {OFF, ON, ON_VC}
    /\ \A i \in Switches : log[i].arg \in {ON, OFF}
    /\ \A j \in AllMails :
          log[j].arg \in {ON, OFF_CURRENT, OFF_VALUE, OFF_STARTUP, ON_ERROR, OFF_ERROR,
                          ON_VC, ON_VC_ERROR, REBOOT_GATEWAY_TIMEOUT,
                          REBOOT_GATEWAY_UNAVAILABLE}

\* OFF_ERROR was mailed and the mode is still ON
C22_Witness ==
    /\ IterationDone
    /\ Mails({OFF_ERROR}) # {}
    /\ current_mode = ON

\* C23: the first iteration outside the value charge time frame that reads
\* the meter while the mode is ON_VC commands OFF, whatever the reading, and
\* commands nothing else; acknowledged, it leaves the mode OFF and sends the
\* OFF_VALUE mail and no other success mail; failed, it leaves the mode
\* ON_VC.  A command to switch on again can only come from a later
\* iteration.
C23_LeavingWindowSwitchesOff ==
    (last = "iteration" /\ ~InWindow /\ mode_before = ON_VC /\ ReadSucceeded
        /\ pc \in {"sleep", "while"}) =>
        /\ Cardinality(Switches) = 1
        /\ \A i \in Switches :
              /\ log[i].op = "switch_off_url2"
              /\ log[i].arg = OFF
              /\ IF log[i].res = CURLE_OK
                 THEN /\ current_mode = OFF
                      /\ ~relay
                      /\ Cardinality(Mails(SuccessEvents)) = 1
                      /\ Mails(SuccessEvents) = Mails({OFF_VALUE})
                 ELSE /\ current_mode = ON_VC
                      /\ Mails(SuccessEvents) = {}

\* the meter reads -2.0 kW, room enough for the charger, and the charger is
\* switched off all the same
C23_Witness ==
    /\ IterationDone /\ ~InWindow
    /\ mode_before = ON_VC
    /\ FracEq(actual_demand, Frac(-2000, 1000))
    /\ current_mode = OFF
    /\ Mails({OFF_VALUE}) # {}
    /\ ~relay

\* the command a success mail reports
Reported(event) == IF event \in {ON, ON_VC} THEN ON ELSE OFF

\* C24: a success mail comes after an acknowledged switch command of the
\* same iteration, the command it reports, and the mode differs from the
\* one the iteration began with only when its switch command has been
\* acknowledged.
C24_AckBeforeMailAndMode ==
    last = "iteration" =>
        /\ \A j \in Mails(SuccessEvents) :
              \E i \in Switches :
                  /\ i < j
                  /\ log[i].res = CURLE_OK
                  /\ log[i].arg = Reported(log[j].arg)
        /\ current_mode # mode_before => SwitchAcknowledged

\* the OFF_CURRENT mail after the acknowledged OFF command
C24_Witness ==
    /\ IterationDone
    /\ mode_before = ON
    /\ current_mode = OFF
    /\ \E j \in Mails({OFF_CURRENT}) :
          \E i \in Switches : i < j /\ log[i].res = CURLE_OK /\ log[i].arg = OFF

\* C25: startup is the gateway's power-on command, whatever it answers,
\* then the OFF command; if that fails the process exits, having sent no
\* mail and without entering the loop; if it succeeds one OFF_STARTUP mail
\* is sent, the process waits 60 s and the loop is entered with
\* current_mode = OFF.
C25_StartupOrder ==
    /\ last = "none" => (pc = "main" /\ log = << >>)
    /\ pc = "exit" => last = "startup"
    /\ last = "startup" =>
          /\ Len(log) >= 2
          /\ log[1].op = "turn_gateway_on"
          /\ log[2].op = "switch_off_url2" /\ log[2].arg = OFF
          /\ IF log[2].res # CURLE_OK
             THEN /\ pc = "exit"
                  /\ Len(log) = 2
                  /\ AllMails = {}
             ELSE /\ pc = "while"
                  /\ Len(log) = 4
                  /\ log[3].op = "sendmail" /\ log[3].arg = OFF_STARTUP
                  /\ AllMails = {3}
                  /\ log[4].op = "sleep" /\ log[4].arg = 60
                  /\ current_mode = OFF

\* the gateway's power-on command failed and the loop was entered
C25_Witness ==
    /\ last = "startup"
    /\ pc = "while"
    /\ log[1].op = "turn_gateway_on" /\ log[1].res # CURLE_OK
    /\ current_mode = OFF

\* ------------------------------------------------------------ the stay in the time frame
\*
\* The whole program with a clock that, once it has shown an hour of the
\* value charge time frame, goes on showing hours of the time frame, and with
\* the two things the retry of a failed command relies on: the clock read
\* and the switch command return (the step is taken when it can be), and the
\* hub does not refuse the command for ever.  last = "retry" marks an iteration that
\* follows an iteration of the time frame whose switch command failed.

RetryClock ==
    /\ pc = "while"
    /\ \E hour \in Hours :
          /\ (last \in {"iteration", "retry"} /\ ValueCharge(tm_hour)) => ValueCharge(hour)
          /\ tm_hour' = hour
          /\ pc' = IF ValueCharge(hour) THEN "value_charge" ELSE "peak"
    /\ log' = << >>
    /\ mode_before' = current_mode
    /\ prev_mode_before' = mode_before
    /\ last' = IF last \in {"iteration", "retry"} /\ ValueCharge(tm_hour)
                   /\ current_mode # ON_VC
                THEN "retry" ELSE "iteration"
    /\ UNCHANGED << current_mode, actual_demand, parse_buffer, relay, base_demand,
                    value_charge >>

\* the switch command of the time frame, acknowledged
RetryAcknowledged == ValueChargeStep /\ current_mode' = ON_VC

RetryNext ==
    \/ Startup
    \/ RetryClock
    \/ ValueChargeStep
    \/ ValueChargeRead
    \/ PeakRead
    \/ PeakSwitchStep
    \/ SleepStep

RetrySpec ==
    /\ Init
    /\ [][RetryNext]_vars
    /\ WF_vars(RetryClock)
    /\ WF_vars(ValueChargeStep)
    /\ SF_vars(RetryAcknowledged)

\* the number of ON_VC mails in a trace
VcMails(l) == Cardinality({ j \in DOMAIN l : l[j].op = "sendmail" /\ l[j].arg = ON_VC })

\* the step that takes the mode to ON_VC sends one ON_VC mail, no other step
\* sends any, and the mode stays ON_VC while the hour stays in the time frame
OneMailPerEntry ==
    /\ (current_mode # ON_VC /\ current_mode' = ON_VC) =>
           (log' # << >> /\ VcMails(log') = VcMails(log) + 1)
    /\ ~(current_mode # ON_VC /\ current_mode' = ON_VC) =>
           (log' = << >> \/ VcMails(log') = VcMails(log))
    /\ current_mode = ON_VC => current_mode' = ON_VC

\* C26: when the hour has come into the value charge time frame and stays
\* there, and the switch command does not fail for ever, the mode becomes
\* ON_VC; the ON_VC mail is sent in the step that sets the mode, once, and in
\* no other step, whatever the number of failed commands before it.
C26_RetriedUntilOnVc ==
    /\ (pc = "value_charge") ~> (current_mode = ON_VC)
    /\ [][OneMailPerEntry]_vars

\* the command was acknowledged in an iteration that follows a failed one
C26_Witness ==
    /\ last = "retry"
    /\ pc = "value_charge_read"
    /\ mode_before # ON_VC
    /\ current_mode = ON_VC
    /\ VcMails(log) = 1

\* ------------------------------------------------------------ one meter call
\*
\* get_meter_reading() from curl_easy_perform() to the first strstr(): the
\* write callback runs once for each piece of the body, the handle is
\* cleaned up, and then the text behind parse_buffer is read.  The memory a
\* piece was handed over in belongs to the handle; once the handle is gone
\* a read through parse_buffer finds the piece as it was, or any other
\* text, or faults.  log holds the calls in program order.

TransferInit ==
    /\ pc = "perform"
    /\ current_mode = OFF
    /\ actual_demand = Zero
    /\ parse_buffer = << >>
    /\ tm_hour = 12
    /\ relay = FALSE
    /\ log = << >>
    /\ mode_before = OFF
    /\ last = "iteration"
    /\ prev_mode_before = OFF
    /\ base_demand = Zero
    /\ value_charge = ShippedWindow

\* the pieces the callback has been given so far
Pieces == SelectSeq(log, LAMBDA e : e.op = "WriteMemoryCallbackMeter")

\* libcurl calls WriteMemoryCallbackMeter() with the next piece
Callback ==
    /\ pc = "perform"
    /\ Len(Pieces) < MaxChunks
    /\ \E contents \in Bodies :
          /\ parse_buffer' = WriteMemoryCallbackMeter(parse_buffer, contents)
          /\ log' = Append(log, Ev("WriteMemoryCallbackMeter", contents, CURLE_OK))
    /\ UNCHANGED << pc, current_mode, actual_demand, tm_hour, relay, mode_before,
                    last, prev_mode_before, base_demand, value_charge >>

\* curl_easy_perform() returns; after a failure the handle is cleaned up
\* and 0 is returned
PerformReturns ==
    /\ pc = "perform"
    /\ \E res \in PerformResults :
          IF res = CURLE_OK
          THEN /\ pc' = "performed"
               /\ log' = Append(log, Ev("curl_easy_perform", 0, res))
          ELSE /\ pc' = "returned"
               /\ log' = log \o << Ev("curl_easy_perform", 0, res),
                                    Ev("curl_easy_cleanup", 0, CURLE_OK) >>
    /\ UNCHANGED << current_mode, actual_demand, parse_buffer, tm_hour, relay,
                    mode_before, last, prev_mode_before, base_demand, value_charge >>

\* curl_slist_free_all(), curl_easy_cleanup(), curl_global_cleanup()
Cleanup ==
    /\ pc = "performed"
    /\ pc' = "cleaned"
    /\ log' = Append(log, Ev("curl_easy_cleanup", 0, CURLE_OK))
    /\ UNCHANGED << current_mode, actual_demand, parse_buffer, tm_hour, relay,
                    mode_before, last, prev_mode_before, base_demand, value_charge >>

\* if (parse_buffer) strstr(parse_buffer, "<Demand>"): the read through the
\* pointer
Inspect ==
    /\ pc = "cleaned"
    /\ IF parse_buffer = << >>
       THEN pc' = "returned" /\ log' = log
       ELSE \/ \E text \in Bodies :
                  /\ pc' = "inspected"
                  /\ log' = Append(log, Ev("strstr", text, CURLE_OK))
            \/ pc' = "crash" /\ log' = log
    /\ UNCHANGED << current_mode, actual_demand, parse_buffer, tm_hour, relay,
                    mode_before, last, prev_mode_before, base_demand, value_charge >>

TransferNext ==
    \/ Callback
    \/ PerformReturns
    \/ Cleanup
    \/ Inspect

TransferSpec == TransferInit /\ [][TransferNext]_vars

\* two pieces put together: a field or a signature that either piece holds
JoinField(a, b) == IF a # NoTok THEN a ELSE b

Join(a, b) ==
    Body(JoinField(a.Demand, b.Demand), JoinField(a.Multiplier, b.Multiplier),
         JoinField(a.Divisor, b.Divisor),
         a.Timeout \/ b.Timeout, a.Unavailable \/ b.Unavailable)

\* the complete body of the pieces of a trace
RECURSIVE Complete(_)
Complete(pieces) ==
    IF Len(pieces) = 1 THEN pieces[1].arg
    ELSE Join(pieces[1].arg, Complete(Tail(pieces)))

\* C27: the text get_meter_reading() looks for <Demand> in is the complete
\* body of the meter call, all its pieces together, and it is read while
\* the handle that delivered it is alive: no curl_easy_cleanup() comes before
\* the strstr().
C27_InspectsWholeLiveBody ==
    pc = "inspected" =>
        \A k \in DOMAIN log :
            log[k].op = "strstr" =>
                /\ \A i \in 1..(k - 1) : log[i].op # "curl_easy_cleanup"
                /\ log[k].arg = Complete(Pieces)

====
